---- MODULE Spec2Model ----
(***************************************************************************)
(* Model of RedisTaskQueueV2                                               *)
(* (src/Proyecto-Final/ProyectoCN/workers/redis_task_queue_v2.py).         *)
(*                                                                         *)
(* The broker state is the five Redis lists and the task hashes.  Every    *)
(* queue method is split at its broker round trips: one action per Redis   *)
(* command (or per pipeline, which redis-py sends as one MULTI/EXEC), so   *)
(* that callers interleave exactly where the code lets them.  A redis list *)
(* is a sequence whose first element is the head (LPUSH side) and whose    *)
(* last element is the tail (RPUSH side).                                  *)
(*                                                                         *)
(* Callers are the processes of Procs.  A process may call any queue       *)
(* method with any id that exists, may stop for ever between two broker    *)
(* calls (Crash), and the clock advances by Tick.  Two calls within the    *)
(* same tick read the same time: the same int(time.time() * 1000) and an   *)
(* elapsed time of 0.                                                      *)
(*                                                                         *)
(* Of the task hash the model keeps the fields the queue itself reads or   *)
(* that tell its states apart: status, retry_count, last_error, worker_id, *)
(* started_at and completed_at, and the two fields that carry the         *)
(* submission: data (add_task) and filters (POST /api/process/), each as   *)
(* the text that is stored.  A field that is not in the hash is "absent"   *)
(* (strings), Absent (numbers) or the empty text.  clear() of the queue    *)
(* deletes the lists and no task hash (its pattern "task:*" matches no key *)
(* of the queue) and is not modelled.                                      *)
(*                                                                         *)
(* The module also models WorkerRegistry (workers/worker_registry.py),     *)
(* whose callers are the same processes and whose cleanup is split at its  *)
(* broker round trips, and FilterPipeline and FilterFactory (core/), which *)
(* are plain objects of one caller.  Each part leaves the state of the     *)
(* others unchanged and has specifications of its own.                     *)
(***************************************************************************)
EXTENDS Integers, Sequences, FiniteSets, TLC

\* ---------------------------------------------------------------- bounds
MaxTime == 1        \* the clock runs from 0 to MaxTime
MaxTasks == 2       \* number of add_task calls
MaxOcc == 2         \* entries held by all lists together, pushes in flight included
MaxCount == 4       \* the largest retry_count mark_failed is let to write

\* ----------------------------------------------------- program constants
max_retries == 3
\* processing_timeout is 300 s in the source.  Here it is counted in ticks
\* of the clock, and a tick stands for a pause longer than the timeout: a
\* claim is stuck as soon as one tick has passed since its started_at.
processing_timeout == 0

\* heartbeat_timeout is 30 s in the source.  Here it is counted in ticks of
\* the clock: a worker whose last heartbeat is one tick old has timed out.
heartbeat_timeout == 1

Procs == {"w1", "w2"}
Ids == 0..MaxTime
Absent == -1

VARIABLES
    now,          \* the wall clock (time.time(), datetime.utcnow())
    pending,      \* {queue_name}:pending
    processing,   \* {queue_name}:processing
    completed,    \* {queue_name}:completed
    failed,       \* {queue_name}:failed
    dead_letter,  \* {queue_name}:dead_letter
    task,         \* {queue_name}:task:{id}, the hash of each id
    pc,           \* the broker call each process makes next; "crashed"
                  \* once the process has stopped for ever
    tid,          \* task_id of the call in progress
    rc,           \* retry_count, the local of mark_failed
    sr,           \* should_retry, the argument of mark_failed
    scan,         \* task_ids still to visit in recover_stuck_tasks
    recovered,    \* recovered, the local of recover_stuck_tasks
    handed,       \* history: the ids the sweep in progress has passed to
                  \* mark_failed, in order
    submitted,    \* history: the ids add_task has returned, in order
    claim         \* history: the process get_task last returned the id to,
                  \* "none" once a terminal call, a sweep or a DLQ retry
                  \* has acted on the id

\* WorkerRegistry (workers/worker_registry.py)
VARIABLES
    workers,      \* {registry_key}:{worker_id}, the hash of each worker id
    worker_keys,  \* keys of the KEYS reply get_dead_workers has still to read
    dead_workers, \* dead_workers, the list get_dead_workers builds
    count,        \* count, the local of cleanup_dead_workers
    current_time, \* current_time, the local of get_dead_workers
    ret,          \* the value the last registry call of the process returned
    removed       \* history: the records the DEL commands of the cleanup in
                  \* progress (or last finished) removed, in order

\* FilterPipeline (core/filter_pipeline.py), FilterFactory (core/filter_factory.py)
VARIABLES
    ppc,               \* where the pipeline object is: "none" before any
                       \* construction, "rejected", "ready", "applying",
                       \* "returned"
    self_filters,      \* self.filters
    stop_on_error,     \* self.stop_on_error
    save_intermediate, \* self.save_intermediate
    configs,           \* the descriptors create_pipeline built the pipeline
                       \* from; <<>> for a pipeline built by the constructor
    image,             \* image, the argument of apply
    output_dir,        \* output_dir, the argument of apply: given or not
    step,              \* i, the index of the loop of apply
    result_image,      \* result_image
    filter_stats,      \* filter_stats
    successful_count,  \* successful_count
    failed_count,      \* failed_count
    returned,          \* what the last call on the pipeline returned or raised
    invoked            \* history: the indexes whose filter apply has called

registry == <<workers, worker_keys, dead_workers, count, current_time, ret,
              removed>>
pipeline == <<ppc, self_filters, stop_on_error, save_intermediate, configs,
              image, output_dir, step, result_image, filter_stats,
              successful_count, failed_count, returned, invoked>>

vars == <<now, pending, processing, completed, failed, dead_letter, task,
          pc, tid, rc, sr, scan, recovered, handed, submitted, claim,
          registry, pipeline>>

lists == <<pending, processing, completed, failed, dead_letter>>
locals == <<tid, rc, sr, scan, recovered, handed>>

\* ---------------------------------------------------------------- helpers
NoTask == [status |-> "absent", retry_count |-> Absent, last_error |-> "absent",
           worker_id |-> "absent", started_at |-> Absent, completed_at |-> Absent,
           data |-> <<>>, filters |-> <<>>]

InSeq(x, s) == \E i \in 1..Len(s) : s[i] = x

RECURSIVE Count(_, _)
Count(x, s) == IF s = <<>> THEN 0
               ELSE (IF Head(s) = x THEN 1 ELSE 0) + Count(x, Tail(s))

\* Mutant: LREM key 0 value, which removes every occurrence.
LRem_All(s, x) == SelectSeq(s, LAMBDA y : y # x)

\* LREM key 1 value: removes the first occurrence, counted from the head.
RECURSIVE LRem(_, _)
LRem(s, x) == IF s = <<>> THEN <<>>
              ELSE IF Head(s) = x THEN Tail(s)
              ELSE <<Head(s)>> \o LRem(Tail(s), x)

RPush(s, x) == Append(s, x)
LPush(s, x) == <<x>> \o s
Front(s) == SubSeq(s, 1, Len(s) - 1)
Last(s) == s[Len(s)]

Idle(p) == pc[p] = "idle"

\* The locals of a call that is over are gone.
LocalsGone(p) ==
    /\ tid' = [tid EXCEPT ![p] = Absent]
    /\ rc' = [rc EXCEPT ![p] = 0]
    /\ sr' = [sr EXCEPT ![p] = TRUE]
    /\ scan' = [scan EXCEPT ![p] = <<>>]
    /\ recovered' = [recovered EXCEPT ![p] = 0]
    /\ handed' = [handed EXCEPT ![p] = <<>>]

Return(p) ==
    /\ pc' = [pc EXCEPT ![p] = "idle"]
    /\ LocalsGone(p)

\* Entries the lists hold or are about to receive.
PushingPcs == {"add_push", "pi_push", "mc_exec", "mf_read", "mf_exec", "rs_read", "rs_exec", "dl_exec"}
InFlight == Cardinality({p \in Procs : pc[p] \in PushingPcs})
Occ == Len(pending) + Len(processing) + Len(completed) + Len(dead_letter) + InFlight
CanGrow == Occ < MaxOcc

\* Submissions made or under way.
Submissions ==
    Len(submitted) + Cardinality({q \in Procs : pc[q] \in {"add_push", "pi_push"}})

Known == {t \in Ids : task[t] # NoTask}

\* ------------------------------------------------- python values and text
\* The values a submission carries, and the text the hash stores for them.
PyNone == [py |-> "None"]
PyStr(s) == [py |-> "str", s |-> s]
PyInt(n) == [py |-> "int", n |-> n]
PyList(xs) == [py |-> "list", items |-> xs]
\* A dict is its items in insertion order, each a pair <<key, value>>.
PyDict(kvs) == [py |-> "dict", pairs |-> kvs]

\* A text is a sequence of tokens.  Word is a run of bare characters.
Punct(c) == [tok |-> "punct", c |-> c]
StrLit(s) == [tok |-> "string", s |-> s]
SingleQuoted(s) == [tok |-> "pystring", s |-> s]
Num(n) == [tok |-> "number", n |-> n]
Word(s) == [tok |-> "word", s |-> s]

\* json.dumps
RECURSIVE JsonDumps(_), DumpItems(_), DumpPairs(_)
JsonDumps(v) ==
    CASE v.py = "None" -> <<Word("null")>>
      [] v.py = "str" -> <<StrLit(v.s)>>
      [] v.py = "int" -> <<Num(v.n)>>
      [] v.py = "list" -> <<Punct("[")>> \o DumpItems(v.items) \o <<Punct("]")>>
      [] v.py = "dict" -> <<Punct("{")>> \o DumpPairs(v.pairs) \o <<Punct("}")>>

DumpItems(xs) ==
    IF xs = <<>> THEN <<>>
    ELSE JsonDumps(Head(xs))
            \o (IF Tail(xs) = <<>> THEN <<>> ELSE <<Punct(",")>> \o DumpItems(Tail(xs)))

DumpPairs(kvs) ==
    IF kvs = <<>> THEN <<>>
    ELSE <<StrLit(Head(kvs)[1]), Punct(":")>> \o JsonDumps(Head(kvs)[2])
            \o (IF Tail(kvs) = <<>> THEN <<>> ELSE <<Punct(",")>> \o DumpPairs(Tail(kvs)))

\* str(v).  For a dict or a list it is repr(v): the shape of the JSON text,
\* with single-quoted strings and None for null.
PyStrOf(v) ==
    CASE v.py = "None" -> <<Word("None")>>
      [] v.py = "str" -> <<Word(v.s)>>
      [] v.py = "int" -> <<Num(v.n)>>
      [] OTHER ->
          LET js == JsonDumps(v) IN
          [i \in DOMAIN js |->
              IF js[i].tok = "string" THEN SingleQuoted(js[i].s)
              ELSE IF js[i] = Word("null") THEN Word("None")
              ELSE js[i]]

\* Mutant: every field written with str().
EncodeField_Str(v) == PyStrOf(v)

\* json.dumps(v) if isinstance(v, (dict, list)) else str(v)
EncodeField(v) ==
    IF v.py \in {"dict", "list"} THEN JsonDumps(v) ELSE PyStrOf(v)

\* json.loads: a parser of the JSON grammar over the tokens.  Each Parse
\* operator returns the value it read and the text that follows it.
ParseError == [ok |-> FALSE, val |-> PyNone, rest |-> <<>>]
Parsed(v, rest) == [ok |-> TRUE, val |-> v, rest |-> rest]

RECURSIVE ParseValue(_), ParseItems(_, _), ParsePairs(_, _)
ParseValue(ts) ==
    IF ts = <<>> THEN ParseError
    ELSE LET h == Head(ts) IN
         CASE h.tok = "string" -> Parsed(PyStr(h.s), Tail(ts))
           [] h.tok = "number" -> Parsed(PyInt(h.n), Tail(ts))
           [] h.tok = "word" -> IF h.s = "null" THEN Parsed(PyNone, Tail(ts))
                                ELSE ParseError
           [] h.tok = "punct" -> IF h.c = "[" THEN ParseItems(Tail(ts), <<>>)
                                 ELSE IF h.c = "{" THEN ParsePairs(Tail(ts), <<>>)
                                 ELSE ParseError
           [] OTHER -> ParseError

ParseItems(ts, acc) ==
    IF ts = <<>> THEN ParseError
    ELSE IF acc = <<>> /\ Head(ts) = Punct("]") THEN Parsed(PyList(<<>>), Tail(ts))
    ELSE LET r == ParseValue(ts) IN
         IF ~ r.ok \/ r.rest = <<>> THEN ParseError
         ELSE IF Head(r.rest) = Punct(",")
              THEN ParseItems(Tail(r.rest), Append(acc, r.val))
         ELSE IF Head(r.rest) = Punct("]")
              THEN Parsed(PyList(Append(acc, r.val)), Tail(r.rest))
         ELSE ParseError

ParsePairs(ts, acc) ==
    IF ts = <<>> THEN ParseError
    ELSE IF acc = <<>> /\ Head(ts) = Punct("}") THEN Parsed(PyDict(<<>>), Tail(ts))
    ELSE IF Len(ts) < 2 \/ ts[1].tok # "string" \/ ts[2] # Punct(":") THEN ParseError
    ELSE LET r == ParseValue(Tail(Tail(ts))) IN
         IF ~ r.ok \/ r.rest = <<>> THEN ParseError
         ELSE IF Head(r.rest) = Punct(",")
              THEN ParsePairs(Tail(r.rest), Append(acc, <<ts[1].s, r.val>>))
         ELSE IF Head(r.rest) = Punct("}")
              THEN Parsed(PyDict(Append(acc, <<ts[1].s, r.val>>)), Tail(r.rest))
         ELSE ParseError

\* json.loads raises on text that follows the value.
JsonLoads(ts) ==
    LET r == ParseValue(ts) IN
    IF r.ok /\ r.rest = <<>> THEN r ELSE ParseError

\* get_task: task[key] = json.loads(value), or the value itself (a str)
\* when json.loads raises.
ParseField(ts) ==
    IF JsonLoads(ts).ok THEN JsonLoads(ts).val
    ELSE IF Len(ts) = 1 /\ ts[1].tok = "word" THEN PyStr(ts[1].s)
    ELSE [py |-> "str", text |-> ts]

\* The task_data of the submissions.
PlainData == PyDict(<< <<"input_path", PyStr("in.jpg")>>,
                       <<"output_path", PyStr("out.jpg")>> >>)
FilterData == PyDict(<< <<"input_path", PyStr("in.jpg")>>,
                        <<"filters", PyList(<< PyDict(<< <<"type", PyStr("blur")>>,
                                                         <<"radius", PyInt(2)>> >>),
                                               PyDict(<< <<"type", PyStr("edges")>> >>) >>)>>,
                        <<"output_name", PyNone>> >>)
EmptyData == PyDict(<<>>)
Payloads == {PlainData, FilterData, EmptyData}

\* The filters of the POSTs: bare names.
FilterLists == {PyList(<<PyStr("blur")>>), PyList(<<PyStr("grayscale"), PyStr("edges")>>)}

\* Filters as they come on the wire: bare names, a name no class is
\* registered under, descriptors, a descriptor with a negative radius.
UnknownTypeList == PyList(<<PyStr("sepia")>>)
DescriptorList == PyList(<< PyDict(<< <<"type", PyStr("blur")>>, <<"radius", PyInt(2)>> >>) >>)
InvalidParamList == PyList(<< PyDict(<< <<"type", PyStr("blur")>>, <<"radius", PyInt(-1)>> >>) >>)
WireFilters == FilterLists \cup {UnknownTypeList, DescriptorList, InvalidParamList}

\* task_data whose filters name an unregistered type.
UnknownTypeData == PyDict(<< <<"input_path", PyStr("in.jpg")>>,
                             <<"filters", PyList(<< PyDict(<< <<"type", PyStr("sepia")>> >>) >>)>> >>)
WirePayloads == Payloads \cup {UnknownTypeData}

\* ------------------------------------------------------ registry values
\* workers/worker_registry.py.  The hash of a worker id is a function from
\* its field names to their values, the empty function when the key does not
\* exist.  The time fields are kept as the numbers whose str() the hash
\* stores: float() of that text gives the number back.
WorkerIds == Procs
KeyOrder == <<"w1", "w2">>
EmptyHash == [k \in {} |-> k]
Exists(h) == DOMAIN h # {}

\* dict.get(k, default)
Get(d, k, default) == IF k \in DOMAIN d THEN d[k] ELSE default

\* dict.update(other), and HSET of every field of other on the hash d.
Update(d, other) ==
    [k \in DOMAIN d \cup DOMAIN other |-> IF k \in DOMAIN other THEN other[k] ELSE d[k]]

\* The metadata of a registration: none, or a dict of extra fields.  Its keys
\* are free: they may be keys register_worker sets itself.
NoMetadata == EmptyHash
Metadata ==
    {NoMetadata, [hostname |-> "host-1"], [status |-> "busy"], [last_heartbeat |-> 0]}
        \cup {[worker_id |-> w] : w \in WorkerIds}

RegistryInit ==
    /\ workers = [w \in WorkerIds |-> EmptyHash]
    /\ worker_keys = [p \in Procs |-> <<>>]
    /\ dead_workers = [p \in Procs |-> <<>>]
    /\ count = [p \in Procs |-> 0]
    /\ current_time = [p \in Procs |-> 0]
    /\ ret = [p \in Procs |-> [op |-> "none", value |-> FALSE]]
    /\ removed = [p \in Procs |-> <<>>]


\* -------------------------------------------------- filters and images
\* filters/*.py.  A filter object is its class and its parameters; anything
\* else (here a str) is not a BaseFilter.
BlurFilter(radius) == [class |-> "BlurFilter", radius |-> radius]
BrightnessFilter(factor) == [class |-> "BrightnessFilter", factor |-> factor]
EdgesFilter == [class |-> "EdgesFilter"]
GrayscaleFilter == [class |-> "GrayscaleFilter"]

\* isinstance(f, BaseFilter)
IsBaseFilter(f) == "class" \in DOMAIN f

\* An image is the file it was opened from and the PIL operations done on it
\* since, in order.
Opened(file) == [file |-> file, ops |-> <<>>]
Images == {Opened("sample.jpg")}
NoImage == PyNone

\* filter_obj.apply(image), when it does not raise
FilterApply(f, img) ==
    [img EXCEPT !.ops = Append(@,
        CASE f.class = "BlurFilter" -> <<"GaussianBlur", f.radius>>
          [] f.class = "BrightnessFilter" -> <<"Brightness", f.factor>>
          [] f.class = "EdgesFilter" -> <<"FIND_EDGES">>
          [] f.class = "GrayscaleFilter" -> <<"convert", "L">>)]

PipelineInit ==
    /\ ppc = "none"
    /\ self_filters = <<>>
    /\ stop_on_error = TRUE
    /\ save_intermediate = FALSE
    /\ configs = <<>>
    /\ image = NoImage
    /\ output_dir = FALSE
    /\ step = 0
    /\ result_image = NoImage
    /\ filter_stats = <<>>
    /\ successful_count = 0
    /\ failed_count = 0
    /\ returned = [call |-> "none", raised |-> "no", value |-> PyNone]
    /\ invoked = <<>>

\* ------------------------------------------------------------------- Init
Init ==
    /\ now = 0
    /\ pending = <<>> /\ processing = <<>> /\ completed = <<>>
    /\ failed = <<>> /\ dead_letter = <<>>
    /\ task = [t \in Ids |-> NoTask]
    /\ pc = [p \in Procs |-> "idle"]
    /\ tid = [p \in Procs |-> Absent]
    /\ rc = [p \in Procs |-> 0]
    /\ sr = [p \in Procs |-> TRUE]
    /\ scan = [p \in Procs |-> <<>>]
    /\ recovered = [p \in Procs |-> 0]
    /\ handed = [p \in Procs |-> <<>>]
    /\ submitted = <<>>
    /\ claim = [t \in Ids |-> "none"]
    /\ RegistryInit
    /\ PipelineInit

\* ------------------------------------------------------------ environment
Tick ==
    /\ now < MaxTime
    /\ now' = now + 1
    /\ UNCHANGED <<lists, task, pc, locals, submitted, claim, registry, pipeline>>

\* A process stops for ever between two broker calls of a method; tid
\* still names the id its call was about.
Crash(p) ==
    /\ pc[p] \notin {"idle", "crashed"}
    /\ pc' = [pc EXCEPT ![p] = "crashed"]
    /\ rc' = [rc EXCEPT ![p] = 0]
    /\ sr' = [sr EXCEPT ![p] = TRUE]
    /\ scan' = [scan EXCEPT ![p] = <<>>]
    /\ recovered' = [recovered EXCEPT ![p] = 0]
    /\ handed' = [handed EXCEPT ![p] = <<>>]
    /\ UNCHANGED <<registry, pipeline, now, lists, task, tid, submitted, claim>>

\* --------------------------------------------------------------- add_task
\* task_id = f"task-{int(time.time() * 1000)}"; HSET of the new record,
\* each field encoded.  HSET with a mapping overwrites the fields it names
\* and keeps the others.
AddTaskHset(p, task_data) ==
    /\ Idle(p)
    /\ Submissions < MaxTasks
    /\ CanGrow
    /\ tid' = [tid EXCEPT ![p] = now]
    /\ task' = [task EXCEPT ![now] = [@ EXCEPT !.status = "pending",
                                               !.retry_count = 0,
                                               !.last_error = "None",
                                               !.data = EncodeField(task_data)]]
    /\ pc' = [pc EXCEPT ![p] = "add_push"]
    /\ UNCHANGED <<registry, pipeline, now, lists, rc, sr, scan, recovered, handed, submitted, claim>>

\* RPUSH pending; return task_id.
AddTaskPush(p) ==
    /\ pc[p] = "add_push"
    /\ pending' = RPush(pending, tid[p])
    /\ submitted' = Append(submitted, tid[p])
    /\ Return(p)
    /\ UNCHANGED <<registry, pipeline, now, processing, completed, failed, dead_letter, task, claim>>

\* ------------------------------------------------ POST /api/process/
\* filters_config = [{"type": f} for f in filters]
FiltersConfig(filters) ==
    PyList([i \in DOMAIN filters.items |-> PyDict(<< <<"type", filters.items[i]>> >>)])

\* process_image: the same task_id as add_task mints, HSET of the flat
\* record of the same queue.
ProcessImageHset(p, filters) ==
    /\ Idle(p)
    /\ Submissions < MaxTasks
    /\ CanGrow
    /\ tid' = [tid EXCEPT ![p] = now]
    /\ task' = [task EXCEPT ![now] = [@ EXCEPT !.status = "pending",
                                               !.retry_count = 0,
                                               !.last_error = "None",
                                               !.filters = JsonDumps(FiltersConfig(filters))]]
    /\ pc' = [pc EXCEPT ![p] = "pi_push"]
    /\ UNCHANGED <<registry, pipeline, now, lists, rc, sr, scan, recovered, handed, submitted, claim>>

\* RPUSH pending; the response carries task_id.
ProcessImagePush(p) ==
    /\ pc[p] = "pi_push"
    /\ pending' = RPush(pending, tid[p])
    /\ submitted' = Append(submitted, tid[p])
    /\ Return(p)
    /\ UNCHANGED <<registry, pipeline, now, processing, completed, failed, dead_letter, task, claim>>

\* --------------------------------------------------------------- get_task
\* BRPOPLPUSH pending processing: the tail of pending becomes the head of
\* processing, in one broker command.
GetTaskPop(p) ==
    /\ Idle(p)
    /\ pending # <<>>
    /\ LET t == Last(pending) IN
        /\ pending' = Front(pending)
        /\ processing' = LPush(processing, t)
        /\ tid' = [tid EXCEPT ![p] = t]
    /\ pc' = [pc EXCEPT ![p] = "get_read"]
    /\ UNCHANGED <<registry, pipeline, now, completed, failed, dead_letter, task, rc, sr, scan,
                   recovered, handed, submitted, claim>>

\* BRPOPLPUSH times out on an empty pending list: get_task returns None.
GetTaskTimeout(p) ==
    /\ Idle(p)
    /\ pending = <<>>
    /\ UNCHANGED vars

\* HGETALL of the task hash; an id without a hash is removed from
\* processing (LREM) and get_task returns None.
GetTaskRead(p) ==
    /\ pc[p] = "get_read"
    /\ IF task[tid[p]] = NoTask
       THEN /\ processing' = LRem(processing, tid[p])
            /\ Return(p)
       ELSE /\ pc' = [pc EXCEPT ![p] = "get_write"]
            /\ UNCHANGED <<processing, locals>>
    /\ UNCHANGED <<registry, pipeline, now, pending, completed, failed, dead_letter, task,
                   submitted, claim>>

\* The pipeline: HSET status, worker_id, started_at; return the task.
GetTaskWrite(p) ==
    /\ pc[p] = "get_write"
    /\ task' = [task EXCEPT ![tid[p]] = [@ EXCEPT !.status = "processing",
                                                  !.worker_id = p,
                                                  !.started_at = now]]
    /\ claim' = [claim EXCEPT ![tid[p]] = p]
    /\ Return(p)
    /\ UNCHANGED <<registry, pipeline, now, lists, submitted>>

\* --------------------------------------------------------- mark_completed
\* LREM processing 1 task_id.
MarkCompletedLrem(p, t) ==
    /\ Idle(p)
    /\ InSeq(t, processing) \/ CanGrow
    /\ processing' = LRem(processing, t)
    /\ tid' = [tid EXCEPT ![p] = t]
    /\ claim' = [claim EXCEPT ![t] = "none"]
    /\ pc' = [pc EXCEPT ![p] = "mc_exec"]
    /\ UNCHANGED <<registry, pipeline, now, pending, completed, failed, dead_letter, task, rc, sr,
                   scan, recovered, handed, submitted>>

\* The pipeline: HSET status, completed_at; RPUSH completed.
MarkCompletedExec(p) ==
    /\ pc[p] = "mc_exec"
    /\ task' = [task EXCEPT ![tid[p]] = [@ EXCEPT !.status = "completed",
                                                  !.completed_at = now]]
    /\ completed' = RPush(completed, tid[p])
    /\ Return(p)
    /\ UNCHANGED <<registry, pipeline, now, pending, processing, failed, dead_letter, submitted, claim>>

\* ------------------------------------------------------------ mark_failed
\* The three broker calls of mark_failed.  recover_stuck_tasks runs them
\* too, as "rs_lrem", "rs_read" and "rs_exec".

\* LREM processing 1 task_id.
MarkFailedLrem(p, t, should_retry) ==
    /\ Idle(p)
    /\ InSeq(t, processing) \/ CanGrow
    /\ processing' = LRem(processing, t)
    /\ tid' = [tid EXCEPT ![p] = t]
    /\ sr' = [sr EXCEPT ![p] = should_retry]
    /\ claim' = [claim EXCEPT ![t] = "none"]
    /\ pc' = [pc EXCEPT ![p] = "mf_read"]
    /\ UNCHANGED <<registry, pipeline, now, pending, completed, failed, dead_letter, task, rc,
                   scan, recovered, handed, submitted>>

\* retry_count = int(task_data.get("retry_count", 0)); retry_count += 1
ReadRetryCount(t) ==
    (IF task[t].retry_count = Absent THEN 0 ELSE task[t].retry_count) + 1

\* HGETALL of the task hash.
MarkFailedRead(p) ==
    /\ pc[p] \in {"mf_read", "rs_read"}
    /\ ReadRetryCount(tid[p]) <= MaxCount
    /\ rc' = [rc EXCEPT ![p] = ReadRetryCount(tid[p])]
    /\ pc' = [pc EXCEPT ![p] = IF pc[p] = "mf_read" THEN "mf_exec" ELSE "rs_exec"]
    /\ UNCHANGED <<registry, pipeline, now, lists, task, tid, sr, scan, recovered, handed, submitted, claim>>

\* Mutant: the retry test with <= for <.
WillRetry_Lte(should_retry, retry_count) ==
    should_retry /\ retry_count <= max_retries

\* Mutant: the retry test without the bound.
WillRetry_Always(should_retry, retry_count) == should_retry

\* if should_retry and retry_count < self.max_retries
WillRetry(should_retry, retry_count) ==
    should_retry /\ retry_count < max_retries

\* The pipeline: HSET retry_count, last_error, status; RPUSH pending or
\* RPUSH dead_letter.  Inside a sweep the loop goes on with the next id.
MarkFailedExec(p) ==
    /\ pc[p] \in {"mf_exec", "rs_exec"}
    /\ LET t == tid[p]
           retry == WillRetry(sr[p], rc[p])
       IN
        /\ task' = [task EXCEPT ![t] = [@ EXCEPT
                        !.retry_count = rc[p],
                        !.last_error = "error",
                        !.status = IF retry THEN "failed" ELSE "dead"]]
        /\ pending' = IF retry THEN RPush(pending, t) ELSE pending
        /\ dead_letter' = IF retry THEN dead_letter ELSE RPush(dead_letter, t)
    /\ IF pc[p] = "mf_exec" \/ Tail(scan[p]) = <<>>
       THEN Return(p)
       ELSE /\ pc' = [pc EXCEPT ![p] = "rs_scan"]
            /\ recovered' = [recovered EXCEPT ![p] = @ + 1]
            /\ scan' = [scan EXCEPT ![p] = Tail(@)]
            /\ tid' = [tid EXCEPT ![p] = Absent]
            /\ rc' = [rc EXCEPT ![p] = 0]
            /\ UNCHANGED <<sr, handed>>
    /\ UNCHANGED <<registry, pipeline, now, processing, completed, failed, submitted, claim>>

\* ---------------------------------------------------- recover_stuck_tasks
\* LRANGE processing 0 -1.  With nothing to visit the call returns 0.
RecoverStart(p) ==
    /\ Idle(p)
    /\ IF processing = <<>>
       THEN UNCHANGED <<pc, scan>>
       ELSE /\ pc' = [pc EXCEPT ![p] = "rs_scan"]
            /\ scan' = [scan EXCEPT ![p] = processing]
    /\ UNCHANGED <<registry, pipeline, now, lists, task, tid, rc, sr, recovered, handed, submitted, claim>>

\* elapsed > self.processing_timeout, for a hash that has a started_at.
IsStuck(t) ==
    /\ task[t] # NoTask
    /\ task[t].started_at # Absent
    /\ now - task[t].started_at > processing_timeout

\* One turn of the loop: HGETALL of the next id; a stuck id goes to
\* mark_failed, any other id is skipped.
RecoverScan(p) ==
    /\ pc[p] = "rs_scan"
    /\ LET t == Head(scan[p]) IN
       IF IsStuck(t)
       THEN /\ tid' = [tid EXCEPT ![p] = t]
            /\ pc' = [pc EXCEPT ![p] = "rs_lrem"]
            /\ handed' = [handed EXCEPT ![p] = Append(@, t)]
            /\ UNCHANGED <<rc, sr, scan, recovered>>
       ELSE IF Tail(scan[p]) = <<>>
            THEN Return(p)
            ELSE /\ scan' = [scan EXCEPT ![p] = Tail(@)]
                 /\ UNCHANGED <<pc, tid, rc, sr, recovered, handed>>
    /\ UNCHANGED <<registry, pipeline, now, lists, task, submitted, claim>>

\* The LREM of the mark_failed that the sweep calls.
RecoverLrem(p) ==
    /\ pc[p] = "rs_lrem"
    /\ InSeq(tid[p], processing) \/ CanGrow
    /\ processing' = LRem(processing, tid[p])
    /\ claim' = [claim EXCEPT ![tid[p]] = "none"]
    /\ pc' = [pc EXCEPT ![p] = "rs_read"]
    /\ UNCHANGED <<registry, pipeline, now, pending, completed, failed, dead_letter, task, locals,
                   submitted>>

\* ------------------------------------------------- retry_dead_letter_task
\* removed = LREM dead_letter 1 task_id; nothing more when it removed nothing.
RetryDeadLetterLrem(p, t) ==
    /\ Idle(p)
    /\ dead_letter' = LRem(dead_letter, t)
    /\ IF InSeq(t, dead_letter)
       THEN /\ pc' = [pc EXCEPT ![p] = "dl_exec"]
            /\ tid' = [tid EXCEPT ![p] = t]
            /\ claim' = [claim EXCEPT ![t] = "none"]
       ELSE UNCHANGED <<pc, tid, claim>>
    /\ UNCHANGED <<registry, pipeline, now, pending, processing, completed, failed, task, rc, sr,
                   scan, recovered, handed, submitted>>

\* The pipeline: HSET retry_count 0, status pending; RPUSH pending.
RetryDeadLetterExec(p) ==
    /\ pc[p] = "dl_exec"
    /\ task' = [task EXCEPT ![tid[p]] = [@ EXCEPT !.retry_count = 0,
                                                  !.status = "pending"]]
    /\ pending' = RPush(pending, tid[p])
    /\ Return(p)
    /\ UNCHANGED <<registry, pipeline, now, processing, completed, failed, dead_letter, submitted, claim>>

\* ------------------------------------------------------------- clear_redis
\* demos/demo_full_test.py, the reset between test runs.  It deletes the
\* keys pending, processing, completed and failed (and "dlq", which is not
\* the dead_letter key of the queue), then every task hash.  Each of the two
\* runs of DEL commands is taken as one step.
ClearRedisLists(p) ==
    /\ Idle(p)
    /\ pending' = <<>> /\ processing' = <<>> /\ completed' = <<>> /\ failed' = <<>>
    /\ pc' = [pc EXCEPT ![p] = "cl_tasks"]
    /\ UNCHANGED <<registry, pipeline, now, dead_letter, task, locals, submitted, claim>>

ClearRedisTasks(p) ==
    /\ pc[p] = "cl_tasks"
    /\ task' = [t \in Ids |-> NoTask]
    /\ Return(p)
    /\ UNCHANGED <<registry, pipeline, now, lists, submitted, claim>>

\* ---------------------------------------------------------- specification
\* One broker call of process p, of any method.
ProcStep(p) ==
    \/ Crash(p)
    \/ AddTaskHset(p, PlainData) \/ AddTaskPush(p)
    \/ GetTaskPop(p) \/ GetTaskTimeout(p) \/ GetTaskRead(p) \/ GetTaskWrite(p)
    \/ \E t \in Known : MarkCompletedLrem(p, t)
    \/ MarkCompletedExec(p)
    \/ \E t \in Known, s \in BOOLEAN : MarkFailedLrem(p, t, s)
    \/ MarkFailedRead(p) \/ MarkFailedExec(p)
    \/ RecoverStart(p) \/ RecoverScan(p) \/ RecoverLrem(p)
    \/ \E t \in Known : RetryDeadLetterLrem(p, t)
    \/ RetryDeadLetterExec(p)

\* Every interleaving of the broker calls of all processes.
Next == Tick \/ \E p \in Procs : ProcStep(p)

Spec == Init /\ [][Next]_vars

\* Calls one after the other: one caller, whose next call starts when the
\* last one has returned.
Caller == "w1"

SeqNext == Tick \/ ProcStep(Caller)

SeqSpec == Init /\ [][SeqNext]_vars



\* Claiming and sweeping only: a worker that submits, claims, sweeps and may
\* stop for ever, and a sweeper that calls recover_stuck_tasks again and
\* again (the recovery timer of a worker that is up) while time passes.
Worker == "w1"
Sweeper == "w2"

SweepStep(p) ==
    \/ RecoverStart(p) \/ RecoverScan(p) \/ RecoverLrem(p)
    \/ MarkFailedRead(p) \/ MarkFailedExec(p)

WorkerStep(p) ==
    \/ Crash(p)
    \/ AddTaskHset(p, PlainData) \/ AddTaskPush(p)
    \/ GetTaskPop(p) \/ GetTaskTimeout(p) \/ GetTaskRead(p) \/ GetTaskWrite(p)
    \/ SweepStep(p)

RecoveryNext == Tick \/ WorkerStep(Worker) \/ SweepStep(Sweeper)

RecoverySpec ==
    /\ Init /\ [][RecoveryNext]_vars
    /\ WF_vars(Tick)
    /\ WF_vars(SweepStep(Sweeper))

\* The same processes when no get_task is paused between its BRPOPLPUSH and
\* its pipeline for longer than the timeout: time passes only while no
\* get_task is part-way.
InsideGetTask(p) == pc[p] \in {"get_read", "get_write"}

PromptTick == Tick /\ \A p \in Procs : ~ InsideGetTask(p)

PromptNext == PromptTick \/ WorkerStep(Worker) \/ SweepStep(Sweeper)

PromptSpec == Init /\ [][PromptNext]_vars

\* The claim loop of a worker (workers/monitored_redis_worker.py, which
\* workers/__main__.py starts): one task at a time, get_task, then
\* mark_completed or mark_failed for the id it claimed, and no other call on
\* the queue.  The worker does not stop and nobody sweeps, while a client
\* submits tasks at different milliseconds.
Submitter == "w1"
Claimant == "w2"

Holds(p) == {t \in Ids : claim[t] = p}

ClaimLoopStep(p) ==
    \/ Holds(p) = {} /\ GetTaskPop(p)
    \/ GetTaskTimeout(p) \/ GetTaskRead(p) \/ GetTaskWrite(p)
    \/ \E t \in Holds(p) : MarkCompletedLrem(p, t)
    \/ MarkCompletedExec(p)
    \/ \E t \in Holds(p), s \in BOOLEAN : MarkFailedLrem(p, t, s)
    \/ MarkFailedRead(p) \/ MarkFailedExec(p)

ClientStep(p) ==
    \/ task[now] = NoTask /\ AddTaskHset(p, PlainData)
    \/ AddTaskPush(p)

CycleNext == Tick \/ ClientStep(Submitter) \/ ClaimLoopStep(Claimant)

CycleSpec ==
    /\ Init /\ [][CycleNext]_vars
    /\ WF_vars(ClientStep(Submitter))
    /\ WF_vars(ClaimLoopStep(Claimant))

\* Submitting and claiming only, with every task_data and every filters
\* list, through add_task and through the POST.
GetTaskStep(p) ==
    GetTaskPop(p) \/ GetTaskTimeout(p) \/ GetTaskRead(p) \/ GetTaskWrite(p)

SubmitStep(p) ==
    \/ \E d \in Payloads : AddTaskHset(p, d)
    \/ AddTaskPush(p)
    \/ \E fs \in FilterLists : ProcessImageHset(p, fs)
    \/ ProcessImagePush(p)
    \/ GetTaskStep(p)

SubmitNext == Tick \/ \E p \in Procs : SubmitStep(p)

SubmitSpec == Init /\ [][SubmitNext]_vars

\* The same for one caller, call after call.
RoundTripNext == Tick \/ SubmitStep(Caller)

RoundTripSpec == Init /\ [][RoundTripNext]_vars

\* The submitters given everything the wire can carry.
FacadeStep(p) ==
    \/ \E d \in WirePayloads : AddTaskHset(p, d)
    \/ AddTaskPush(p)
    \/ \E fs \in WireFilters : ProcessImageHset(p, fs)
    \/ ProcessImagePush(p)
    \/ GetTaskStep(p)

FacadeNext == Tick \/ \E p \in Procs : FacadeStep(p)

FacadeSpec == Init /\ [][FacadeNext]_vars

\* Workers that submit, claim and sweep while the demo resets the broker.
CleanupNext ==
    \/ Tick
    \/ \E p \in Procs : WorkerStep(p) \/ ClearRedisLists(p) \/ ClearRedisTasks(p)

CleanupSpec == Init /\ [][CleanupNext]_vars

\* ========================================================= WorkerRegistry
\* workers/worker_registry.py: one action per method, cleanup_dead_workers
\* split at its broker round trips.
queue == <<lists, task, locals, submitted, claim>>

RegistryReturn(p, op, value) ==
    /\ pc' = [pc EXCEPT ![p] = "idle"]
    /\ ret' = [ret EXCEPT ![p] = [op |-> op, value |-> value]]
    /\ worker_keys' = [worker_keys EXCEPT ![p] = <<>>]
    /\ dead_workers' = [dead_workers EXCEPT ![p] = <<>>]
    /\ count' = [count EXCEPT ![p] = 0]
    /\ current_time' = [current_time EXCEPT ![p] = 0]

\* time_since_heartbeat = current_time - float(worker_info.get("last_heartbeat", 0))
TimeSinceHeartbeat(worker_info, t) == t - Get(worker_info, "last_heartbeat", 0)

\* if time_since_heartbeat < self.heartbeat_timeout   (get_active_workers,
\* and is_alive of get_worker_info)
IsActive(worker_info, t) == TimeSinceHeartbeat(worker_info, t) < heartbeat_timeout

IsDead_Gt(worker_info, t) == TimeSinceHeartbeat(worker_info, t) > heartbeat_timeout

\* if time_since_heartbeat >= self.heartbeat_timeout   (get_dead_workers)
IsDead(worker_info, t) == TimeSinceHeartbeat(worker_info, t) >= heartbeat_timeout

\* register_worker: the pipeline of one HSET per field of worker_info, sent
\* as one MULTI/EXEC.  HSET adds to the fields the hash already has.
WorkerInfo(worker_id, metadata) ==
    LET worker_info == [worker_id |-> worker_id, registered_at |-> now,
                        last_heartbeat |-> now, status |-> "active"]
    IN  IF Exists(metadata) THEN Update(worker_info, metadata) ELSE worker_info

RegisterWorker(p, worker_id, metadata) ==
    /\ Idle(p)
    /\ workers' = [workers EXCEPT ![worker_id] = Update(@, WorkerInfo(worker_id, metadata))]
    /\ RegistryReturn(p, "register_worker", TRUE)
    /\ UNCHANGED <<now, queue, pipeline, removed>>

\* HSET key field value replies with the number of fields it added.
HSetReply(h, k) == PyInt(IF k \in DOMAIN h THEN 0 ELSE 1)

\* send_heartbeat: success = hset(key, "last_heartbeat", now);
\* return success is not None
SendHeartbeat(p, worker_id) ==
    /\ Idle(p)
    /\ LET success == HSetReply(workers[worker_id], "last_heartbeat") IN
           RegistryReturn(p, "send_heartbeat", success # PyNone)
    /\ workers' = [workers EXCEPT ![worker_id] = Update(@, [last_heartbeat |-> now])]
    /\ UNCHANGED <<now, queue, pipeline, removed>>

\* unregister_worker: deleted = DEL key; return deleted > 0
UnregisterWorker(p, worker_id) ==
    /\ Idle(p)
    /\ LET deleted == IF Exists(workers[worker_id]) THEN 1 ELSE 0 IN
           RegistryReturn(p, "unregister_worker", deleted > 0)
    /\ workers' = [workers EXCEPT ![worker_id] = EmptyHash]
    /\ UNCHANGED <<now, queue, pipeline, removed>>

\* KEYS {registry_key}:*: the keys that exist, in an order the broker picks.
Reverse(s) == [i \in 1..Len(s) |-> s[Len(s) + 1 - i]]
Keys == SelectSeq(KeyOrder, LAMBDA k : Exists(workers[k]))
KeysReplies == {Keys, Reverse(Keys)}

\* cleanup_dead_workers calls get_dead_workers, which reads the clock and
\* sends KEYS.
CleanupKeys(p) ==
    /\ Idle(p)
    /\ \E ks \in KeysReplies :
        /\ worker_keys' = [worker_keys EXCEPT ![p] = ks]
        /\ pc' = [pc EXCEPT ![p] = IF ks = <<>> THEN "cu_del" ELSE "gd_read"]
    /\ current_time' = [current_time EXCEPT ![p] = now]
    /\ dead_workers' = [dead_workers EXCEPT ![p] = <<>>]
    /\ count' = [count EXCEPT ![p] = 0]
    /\ removed' = [removed EXCEPT ![p] = <<>>]
    /\ UNCHANGED <<now, queue, pipeline, workers, ret>>

\* get_dead_workers, one turn of its loop: HGETALL of the next key; a key
\* that is gone is skipped, a record that timed out is appended.
GetDeadRead(p) ==
    /\ pc[p] = "gd_read"
    /\ LET worker_info == workers[Head(worker_keys[p])] IN
           dead_workers' = [dead_workers EXCEPT ![p] =
               IF Exists(worker_info) /\ IsDead(worker_info, current_time[p])
               THEN Append(@, worker_info) ELSE @]
    /\ worker_keys' = [worker_keys EXCEPT ![p] = Tail(@)]
    /\ pc' = [pc EXCEPT ![p] = IF Tail(worker_keys[p]) = <<>> THEN "cu_del" ELSE "gd_read"]
    /\ UNCHANGED <<now, queue, pipeline, workers, count, current_time, ret, removed>>

\* cleanup_dead_workers, one turn of its loop:
\*   worker_id = worker.get("worker_id")
\*   if worker_id: self.unregister_worker(worker_id); count += 1
\* removed notes the record the DEL took away and whether it was alive then.
CleanupDel(p) ==
    /\ pc[p] = "cu_del"
    /\ dead_workers[p] # <<>>
    /\ LET worker_id == Get(Head(dead_workers[p]), "worker_id", "None") IN
           IF worker_id # "None"
           THEN /\ workers' = [workers EXCEPT ![worker_id] = EmptyHash]
                /\ count' = [count EXCEPT ![p] = @ + 1]
                /\ removed' = [removed EXCEPT ![p] =
                       IF Exists(workers[worker_id])
                       THEN Append(@, [key |-> worker_id, info |-> workers[worker_id],
                                       alive |-> IsActive(workers[worker_id], now)])
                       ELSE @]
           ELSE UNCHANGED <<workers, count, removed>>
    /\ dead_workers' = [dead_workers EXCEPT ![p] = Tail(@)]
    /\ UNCHANGED <<now, queue, pipeline, pc, worker_keys, current_time, ret>>

\* return count
CleanupReturn(p) ==
    /\ pc[p] = "cu_del"
    /\ dead_workers[p] = <<>>
    /\ RegistryReturn(p, "cleanup_dead_workers", count[p])
    /\ UNCHANGED <<now, queue, pipeline, workers, removed>>

\* get_active_workers(), get_dead_workers() and get_worker_info(worker_id)
\* called at time t on the registry as it is, the keys read in the order ks.
RECURSIVE GetActiveWorkers(_, _)
GetActiveWorkers(ks, t) ==
    IF ks = <<>> THEN <<>>
    ELSE LET worker_info == workers[Head(ks)] IN
         (IF Exists(worker_info) /\ IsActive(worker_info, t)
          THEN <<worker_info>> ELSE <<>>) \o GetActiveWorkers(Tail(ks), t)

RECURSIVE GetDeadWorkers(_, _)
GetDeadWorkers(ks, t) ==
    IF ks = <<>> THEN <<>>
    ELSE LET worker_info == workers[Head(ks)] IN
         (IF Exists(worker_info) /\ IsDead(worker_info, t)
          THEN <<worker_info>> ELSE <<>>) \o GetDeadWorkers(Tail(ks), t)

GetWorkerInfo(worker_id, t) ==
    IF ~Exists(workers[worker_id]) THEN EmptyHash
    ELSE Update(workers[worker_id], [is_alive |-> IsActive(workers[worker_id], t)])

\* One registry call, or one broker round trip of cleanup_dead_workers.
CleanupStep(p) ==
    CleanupKeys(p) \/ GetDeadRead(p) \/ CleanupDel(p) \/ CleanupReturn(p)

RegistryStep(p) ==
    \/ \E w \in WorkerIds, md \in Metadata : RegisterWorker(p, w, md)
    \/ \E w \in WorkerIds : SendHeartbeat(p, w)
    \/ \E w \in WorkerIds : UnregisterWorker(p, w)
    \/ CleanupStep(p)

\* A worker process that makes the calls of the workers (registering without
\* metadata), and a process that runs cleanup_dead_workers, interleaved at
\* every broker round trip.
WorkerCalls(p) ==
    \/ \E w \in WorkerIds : RegisterWorker(p, w, NoMetadata)
    \/ \E w \in WorkerIds : SendHeartbeat(p, w)
    \/ \E w \in WorkerIds : UnregisterWorker(p, w)

RegistryNext == Tick \/ WorkerCalls(Worker) \/ CleanupStep(Sweeper)

RegistrySpec == Init /\ [][RegistryNext]_vars

\* Registry calls one after the other, by one caller.
RegistrySeqNext == Tick \/ RegistryStep(Caller)

RegistrySeqSpec == Init /\ [][RegistrySeqNext]_vars

\* The same without metadata: register_worker(worker_id).
PlainRegistryStep(p) ==
    \/ \E w \in WorkerIds : RegisterWorker(p, w, NoMetadata)
    \/ \E w \in WorkerIds : SendHeartbeat(p, w)
    \/ \E w \in WorkerIds : UnregisterWorker(p, w)
    \/ CleanupStep(p)

PlainRegistryNext == Tick \/ PlainRegistryStep(Caller)

PlainRegistrySpec == Init /\ [][PlainRegistryNext]_vars

\* ================================================ FilterPipeline, factory
\* core/filter_pipeline.py and core/filter_factory.py.  One pipeline object
\* and one caller: the object is constructed (directly or by the factory),
\* its list is edited, apply runs one turn of its loop per step, and may
\* run again once it has returned.  A filter
\* may raise on the image it is given, and saving an intermediate image may
\* raise (a directory that cannot be written, an image mode JPEG cannot
\* hold): both are choices of the environment.
MaxFilters == 2     \* longest list of filters or descriptors handed over

FilterObjs == {BlurFilter(2), EdgesFilter}
NotAFilter == PyStr("blur")

RECURSIVE SeqsUpTo(_, _)
SeqsUpTo(S, n) ==
    IF n = 0 THEN {<<>>}
    ELSE LET shorter == SeqsUpTo(S, n - 1) IN
         shorter \cup {Append(s, x) : s \in {t \in shorter : Len(t) = n - 1}, x \in S}

\* The lists a caller hands to the constructor.
FilterArgs == SeqsUpTo(FilterObjs \cup {NotAFilter}, MaxFilters)

\* __init__: what it raises for the list, "no" when it accepts it.
InitRaises(fs) ==
    IF fs = <<>> THEN "ValueError"
    ELSE IF \E i \in DOMAIN fs : ~ IsBaseFilter(fs[i]) THEN "TypeError"
    ELSE "no"

Raise(call, err) == [call |-> call, raised |-> err, value |-> PyNone]
Value(call, v) == [call |-> call, raised |-> "no", value |-> v]

ApplyLocalsGone ==
    /\ image' = NoImage
    /\ output_dir' = FALSE
    /\ step' = 0
    /\ result_image' = NoImage
    /\ filter_stats' = <<>>
    /\ successful_count' = 0
    /\ failed_count' = 0
    /\ invoked' = <<>>

\* FilterPipeline(fs, stop_on_error, save_intermediate), called by call.
NewPipeline(call, fs, soe, si, cfgs) ==
    /\ ppc = "none"
    /\ IF InitRaises(fs) = "no"
       THEN /\ ppc' = "ready"
            /\ self_filters' = fs
            /\ stop_on_error' = soe
            /\ save_intermediate' = si
            /\ configs' = cfgs
            /\ returned' = Value(call, PyNone)
       ELSE /\ ppc' = "rejected"
            /\ self_filters' = <<>>
            /\ stop_on_error' = TRUE
            /\ save_intermediate' = FALSE
            /\ configs' = <<>>
            /\ returned' = Raise(call, InitRaises(fs))
    /\ ApplyLocalsGone

Construct(fs, soe, si) ==
    /\ NewPipeline("__init__", fs, soe, si, <<>>)
    /\ UNCHANGED <<now, queue, pc, registry>>

Constructed == ppc \in {"ready", "returned"}

\* add_filter: raises TypeError for a non-filter, else appends.
AddFilter(filter_obj) ==
    /\ Constructed
    /\ Len(self_filters) < MaxFilters
    /\ IF ~ IsBaseFilter(filter_obj)
       THEN /\ returned' = Raise("add_filter", "TypeError")
            /\ UNCHANGED <<self_filters, configs>>
       ELSE /\ self_filters' = Append(self_filters, filter_obj)
            /\ configs' = <<>>
            /\ returned' = Value("add_filter", PyNone)
    /\ UNCHANGED <<now, queue, pc, registry, ppc, stop_on_error, save_intermediate,
                   image, output_dir, step, result_image, filter_stats,
                   successful_count, failed_count, invoked>>

\* list.pop(index), index counted from 0
Pop(s, index) == SubSeq(s, 1, index) \o SubSeq(s, index + 2, Len(s))

\* remove_filter: pops if 0 <= index < len(self.filters), else IndexError.
RemoveFilter(index) ==
    /\ Constructed
    /\ IF 0 <= index /\ index < Len(self_filters)
       THEN /\ self_filters' = Pop(self_filters, index)
            /\ configs' = <<>>
            /\ returned' = Value("remove_filter", self_filters[index + 1])
       ELSE /\ returned' = Raise("remove_filter", "IndexError")
            /\ UNCHANGED <<self_filters, configs>>
    /\ UNCHANGED <<now, queue, pc, registry, ppc, stop_on_error, save_intermediate,
                   image, output_dir, step, result_image, filter_stats,
                   successful_count, failed_count, invoked>>

\* apply, up to its loop: result_image = image.copy(), the counters at 0.
ApplyStart(img, dir) ==
    /\ Constructed
    /\ image' = img
    /\ output_dir' = dir
    /\ result_image' = img
    /\ filter_stats' = <<>>
    /\ successful_count' = 0
    /\ failed_count' = 0
    /\ step' = 0
    /\ invoked' = <<>>
    /\ ppc' = IF self_filters = <<>> THEN "compile" ELSE "applying"
    /\ UNCHANGED <<now, queue, pc, registry, self_filters, stop_on_error,
                   save_intermediate, configs, returned>>

Success(filter_obj, i) == [name |-> filter_obj.class, index |-> i, status |-> "success"]
Failed(filter_obj, i) == [name |-> filter_obj.class, index |-> i, status |-> "failed"]

\* One turn of the loop of apply, for filter i = step.  Within the try:
\* the filter is applied, the success entry is appended, successful_count
\* grows, and the intermediate image is saved if save_intermediate and
\* output_dir; whatever raises within the try lands in the except, which
\* appends the failed entry, counts it, and breaks if stop_on_error.
ApplyStep(filter_raises, save_raises) ==
    /\ ppc = "applying"
    /\ LET filter_obj == self_filters[step + 1]
           saves == save_intermediate /\ output_dir
           excepted == filter_raises \/ (saves /\ save_raises)
           applied == IF filter_raises THEN filter_stats
                      ELSE Append(filter_stats, Success(filter_obj, step))
       IN  /\ invoked' = Append(invoked, step)
           /\ result_image' = IF filter_raises THEN result_image
                              ELSE FilterApply(filter_obj, result_image)
           /\ successful_count' = IF filter_raises THEN successful_count
                                  ELSE successful_count + 1
           /\ filter_stats' = IF excepted THEN Append(applied, Failed(filter_obj, step))
                              ELSE applied
           /\ failed_count' = IF excepted THEN failed_count + 1 ELSE failed_count
           /\ ppc' = IF (excepted /\ stop_on_error) \/ step + 1 = Len(self_filters)
                     THEN "compile" ELSE "applying"
    /\ step' = step + 1
    /\ UNCHANGED <<now, queue, pc, registry, self_filters, stop_on_error,
                   save_intermediate, configs, image, output_dir, returned>>

ReturnsNone_One(successful) == successful <= 1

\* if successful_count == 0: return None, stats
ReturnsNone(successful) == successful = 0

\* apply, after its loop: the stats are compiled and the pair is returned;
\* the locals of the call are gone.
ApplyReturn ==
    /\ ppc = "compile"
    /\ LET stats == [filters |-> filter_stats, successful |-> successful_count,
                     failed |-> failed_count, total_filters |-> Len(self_filters)]
       IN  returned' = Value("apply",
               [image |-> IF ReturnsNone(successful_count) THEN NoImage ELSE result_image,
                stats |-> stats])
    /\ ppc' = "returned"
    /\ ApplyLocalsGone
    /\ UNCHANGED <<now, queue, pc, registry, self_filters, stop_on_error,
                   save_intermediate, configs>>

\* ---------------------------------------------------------- FilterFactory
\* A descriptor is a dict: a function from its keys to their values.
\* BrightnessFilter's factor is counted in tenths (its default 1.5 is 15).
FILTER_REGISTRY ==
    [blur |-> "BlurFilter", brightness |-> "BrightnessFilter", edges |-> "EdgesFilter",
     grayscale |-> "GrayscaleFilter", gray |-> "GrayscaleFilter"]

\* str.lower(), on the names the descriptors use
Lower(s) ==
    CASE s = "Blur" -> "blur"
      [] s = "GRAY" -> "gray"
      [] OTHER -> s

NotCreated(err) == [raised |-> err, made |-> PyNone]
Created(made) == [raised |-> "no", made |-> made]

\* filter_class(**kwargs): the constructors of filters/*.py.  A keyword the
\* constructor does not have is a TypeError.
NewFilter(class, kwargs) ==
    CASE class = "BlurFilter" ->
            IF ~ (DOMAIN kwargs \subseteq {"radius"}) THEN NotCreated("TypeError")
            ELSE IF Get(kwargs, "radius", 2) < 0 THEN NotCreated("ValueError")
            ELSE Created(BlurFilter(Get(kwargs, "radius", 2)))
      [] class = "BrightnessFilter" ->
            IF ~ (DOMAIN kwargs \subseteq {"factor"}) THEN NotCreated("TypeError")
            ELSE IF Get(kwargs, "factor", 15) < 0 THEN NotCreated("ValueError")
            ELSE Created(BrightnessFilter(Get(kwargs, "factor", 15)))
      [] class = "EdgesFilter" ->
            IF DOMAIN kwargs # {} THEN NotCreated("TypeError") ELSE Created(EdgesFilter)
      [] class = "GrayscaleFilter" ->
            IF DOMAIN kwargs # {} THEN NotCreated("TypeError") ELSE Created(GrayscaleFilter)

\* create(filter_type, **kwargs)
Create(filter_type, kwargs) ==
    IF Lower(filter_type) \notin DOMAIN FILTER_REGISTRY THEN NotCreated("ValueError")
    ELSE NewFilter(FILTER_REGISTRY[Lower(filter_type)], kwargs)

\* The keys of the descriptor other than 'type'.
Params(config) == [k \in DOMAIN config \ {"type"} |-> config[k]]

CreateFromConfig_DefaultType(config) ==
    Create(Get(config, "type", "blur"), Params(config))

\* create_from_config(config)
CreateFromConfig(config) ==
    IF "type" \notin DOMAIN config THEN NotCreated("ValueError")
    ELSE Create(config.type, Params(config))

CollectFilter_Front(filters, filter_obj) == <<filter_obj>> \o filters

\* filters.append(filter_obj)
CollectFilter(filters, filter_obj) == Append(filters, filter_obj)

\* The loop of create_pipeline from index i on: a descriptor that cannot be
\* created ends it with ValueError, whose message carries i and
\* config.get('type', 'unknown').
RECURSIVE CreateFilters(_, _, _)
CreateFilters(cfgs, filters, i) ==
    IF cfgs = <<>> THEN Created(filters)
    ELSE LET c == CreateFromConfig(Head(cfgs)) IN
         IF c.raised # "no"
         THEN [raised |-> "ValueError",
               made |-> [index |-> i, type |-> Get(Head(cfgs), "type", "unknown")]]
         ELSE CreateFilters(Tail(cfgs), CollectFilter(filters, c.made), i + 1)

ValidDescriptors ==
    {[type |-> "Blur", radius |-> 3], [type |-> "GRAY"], [type |-> "brightness"]}
InvalidDescriptors ==
    {[radius |-> 3], [type |-> "sepia"], [type |-> "edges", radius |-> 3],
     [type |-> "blur", radius |-> -1]}
Descriptors == ValidDescriptors \cup InvalidDescriptors
ConfigArgs == SeqsUpTo(Descriptors, MaxFilters)

\* create_pipeline(configs, **pipeline_kwargs)
CreatePipeline(cfgs, soe, si) ==
    /\ ppc = "none"
    /\ LET c == CreateFilters(cfgs, <<>>, 0) IN
           IF c.raised # "no"
           THEN /\ ppc' = "rejected"
                /\ self_filters' = <<>>
                /\ stop_on_error' = TRUE
                /\ save_intermediate' = FALSE
                /\ configs' = <<>>
                /\ returned' = [call |-> "create_pipeline", raised |-> c.raised,
                                value |-> c.made]
                /\ ApplyLocalsGone
           ELSE NewPipeline("create_pipeline", c.made, soe, si, cfgs)
    /\ UNCHANGED <<now, queue, pc, registry>>

PipelineNext ==
    \/ \E fs \in FilterArgs, soe \in BOOLEAN, si \in BOOLEAN : Construct(fs, soe, si)
    \/ \E cfgs \in ConfigArgs, soe \in BOOLEAN, si \in BOOLEAN : CreatePipeline(cfgs, soe, si)
    \/ \E f \in FilterObjs \cup {NotAFilter} : AddFilter(f)
    \/ \E index \in -1..MaxFilters : RemoveFilter(index)
    \/ \E img \in Images, dir \in BOOLEAN : ApplyStart(img, dir)
    \/ \E filter_raises \in BOOLEAN, save_raises \in BOOLEAN :
          ApplyStep(filter_raises, save_raises)
    \/ ApplyReturn

PipelineSpec == Init /\ [][PipelineNext]_vars

\* ------------------------------------------------- constructing one filter
\* Parameters tried: radius as given, factor in tenths.
MaxParam == 50
ParamValues == -2..MaxParam
FilterKwargs ==
    {EmptyHash} \cup {[radius |-> v] : v \in ParamValues}
                \cup {[factor |-> v] : v \in ParamValues}
FilterClasses == {"BlurFilter", "BrightnessFilter", "EdgesFilter", "GrayscaleFilter"}
FilterTypes == DOMAIN FILTER_REGISTRY \cup {"Blur", "GRAY", "sepia"}

\* What a call that builds one filter hands back: the filter, or the error.
Outcome(call, c) == [call |-> call, raised |-> c.raised, value |-> c.made]

\* BlurFilter(radius=...), BrightnessFilter(factor=...), EdgesFilter(), ...
NewFilterCall(class, kwargs) ==
    /\ ppc = "none"
    /\ returned' = Outcome("new", NewFilter(class, kwargs))
    /\ UNCHANGED <<now, queue, pc, registry, ppc, self_filters, stop_on_error,
                   save_intermediate, configs, image, output_dir, step,
                   result_image, filter_stats, successful_count, failed_count,
                   invoked>>

\* FilterFactory().create(filter_type, **kwargs)
FactoryCreate(filter_type, kwargs) ==
    /\ ppc = "none"
    /\ returned' = Outcome("create", Create(filter_type, kwargs))
    /\ UNCHANGED <<now, queue, pc, registry, ppc, self_filters, stop_on_error,
                   save_intermediate, configs, image, output_dir, step,
                   result_image, filter_stats, successful_count, failed_count,
                   invoked>>

FactoryNext ==
    \/ \E class \in FilterClasses, kwargs \in FilterKwargs : NewFilterCall(class, kwargs)
    \/ \E filter_type \in FilterTypes, kwargs \in FilterKwargs :
          FactoryCreate(filter_type, kwargs)

FactorySpec == Init /\ [][FactoryNext]_vars

\* ----------------------------------------------------------------- views
Range(s) == {s[i] : i \in 1..Len(s)}

\* Occurrences of t in the five lists together.
TotalCount(t) ==
    Count(t, pending) + Count(t, processing) + Count(t, completed)
        + Count(t, failed) + Count(t, dead_letter)

AllIdle == \A p \in Procs : pc[p] = "idle"

\* Steps of a call, told by the position of the caller before and after.
Popped(p) == pc[p] = "idle" /\ pc'[p] = "get_read"
Returned(p, from) == pc[p] = from /\ pc'[p] = "idle"

\* The pop took the entry at index i of pending.
PoppedAt(i) ==
    /\ i \in 1..Len(pending)
    /\ pending' = SubSeq(pending, 1, i - 1) \o SubSeq(pending, i + 1, Len(pending))

\* add_task(u) returned before add_task(t) did.
SubmittedBefore(u, t) ==
    \E i, j \in 1..Len(submitted) : i < j /\ submitted[i] = u /\ submitted[j] = t

\* An id no mark_failed has touched.
NeverFailed(t) == task[t].last_error = "None"

\* ------------------------------------------------------------------ claims

\* C1: tasks are claimed in submission order: when get_task pops an id that
\* was never retried, no never-retried id submitted before it is still
\* waiting in pending.
C1_ClaimedInSubmissionOrder ==
    [][\A p \in Procs : Popped(p) =>
          LET t == tid'[p] IN
          NeverFailed(t) =>
              ~ \E u \in Ids : /\ u # t
                               /\ NeverFailed(u)
                               /\ InSeq(u, pending')
                               /\ SubmittedBefore(u, t)]_vars

\* C2: no id is held by two workers at once: get_task returns an id to a
\* process only if no other process got it from get_task since the last
\* mark_completed, mark_failed, sweep or DLQ retry acted on it.
C2_NoTwoHolders ==
    [][\A p \in Procs : Returned(p, "get_write") =>
          claim[tid[p]] \in {"none", p}]_vars

\* C3: when no call is in progress, every submitted id occurs exactly once
\* in the five lists together.  (Stated for the ids that add_task returned
\* once: an id minted twice is pushed twice by add_task itself.)
C3_ExactlyOnceAtRest ==
    AllIdle => \A t \in Range(submitted) :
                  Count(t, submitted) = 1 => TotalCount(t) = 1

\* C4: mark_completed is idempotent: the pipeline of a mark_completed for an
\* id that already rests in completed changes no list and not the record.
C4_MarkCompletedIdempotent ==
    [][\A p \in Procs :
          (/\ Returned(p, "mc_exec")
           /\ task[tid[p]].status = "completed"
           /\ InSeq(tid[p], completed)
           /\ ~ InSeq(tid[p], processing))
          => /\ lists' = lists
             /\ task'[tid[p]] = task[tid[p]]]_vars

\* C5: completion and failure exclude each other: the terminal call of the
\* other kind, for an id that a first terminal call has put to rest, adds
\* the id to no list and changes neither status nor retry_count.
AtRestAfter(t, statuses) ==
    /\ task[t].status \in statuses
    /\ ~ InSeq(t, processing)

C5_SecondTerminalCallAbsorbed ==
    [][\A p \in Procs :
          LET t == tid[p]
              absorbed == /\ lists' = lists
                          /\ task'[t].status = task[t].status
                          /\ task'[t].retry_count = task[t].retry_count
          IN
          /\ (Returned(p, "mf_exec") /\ AtRestAfter(t, {"completed"})) => absorbed
          /\ (Returned(p, "mc_exec") /\ AtRestAfter(t, {"failed", "dead"})) => absorbed]_vars

\* C6: with calls one after the other, mark_failed on a task whose
\* retry_count is r takes one occurrence of the id out of processing, writes
\* retry_count r + 1 and routes the id to exactly one place: to the tail of
\* pending with status failed if should_retry and r + 1 < max_retries,
\* else to the tail of dead_letter with status dead.  With max_retries = 3
\* the failures of a task that is always retried write 1, 2 and 3, and the
\* third one sends it to dead_letter.
C6_Removal(p) ==
    (pc[p] \in {"idle", "rs_lrem"} /\ pc'[p] \in {"mf_read", "rs_read"}) =>
        LET t == tid'[p] IN
        /\ Count(t, processing') = (IF InSeq(t, processing) THEN Count(t, processing) - 1 ELSE 0)
        /\ \A u \in Ids \ {t} : Count(u, processing') = Count(u, processing)
        /\ Count(t, processing) = 1 => ~ InSeq(t, processing')

C6_Routing(p) ==
    (pc[p] \in {"mf_exec", "rs_exec"} /\ pc'[p] \in {"idle", "rs_scan"}) =>
        LET t == tid[p]
            r == IF task[t].retry_count = Absent THEN 0 ELSE task[t].retry_count
        IN
        /\ task'[t].retry_count = r + 1
        /\ IF sr[p] /\ r + 1 < max_retries
           THEN /\ task'[t].status = "failed"
                /\ pending' = Append(pending, t)
                /\ dead_letter' = dead_letter
           ELSE /\ task'[t].status = "dead"
                /\ dead_letter' = Append(dead_letter, t)
                /\ pending' = pending
        /\ <<processing, completed, failed>>' = <<processing, completed, failed>>
        /\ max_retries = 3 =>
            /\ (sr[p] /\ r \in {0, 1}) => (task'[t].status = "failed" /\ Last(pending') = t)
            /\ r = 2 => (task'[t].status = "dead" /\ task'[t].retry_count = 3
                         /\ Last(dead_letter') = t)

C6_MarkFailedRoutes ==
    [][\A p \in Procs : C6_Removal(p) /\ C6_Routing(p)]_vars

\* The third failure of a claimed task is under way: mark_failed, called
\* with should_retry for a task that get_task handed out with retry_count 2,
\* has taken the id out of processing and is about to route it.
C6_Witness ==
    \E p \in Procs :
        /\ pc[p] = "mf_exec" /\ sr[p] /\ rc[p] = 3
        /\ tid[p] \in Range(submitted)
        /\ task[tid[p]].status = "processing"
        /\ task[tid[p]].retry_count = 2
        /\ TotalCount(tid[p]) = 0

\* C7: a retried task does not jump the queue: when get_task pops an id that
\* mark_failed re-enqueued, it takes the oldest entry of pending, so nothing
\* that was in pending before the re-enqueue is still waiting.
C7_RetryDoesNotJump ==
    [][\A p \in Procs :
          (/\ Popped(p)
           /\ tid'[p] \in Range(submitted)
           /\ task[tid'[p]].status = "failed") => PoppedAt(1)]_vars

\* C8: the queue never loses a task: a submitted id is in pending,
\* processing, completed or dead_letter, or a call that has not stopped is
\* about to put it back.
PutsBack(p, t) ==
    /\ tid[p] = t
    /\ pc[p] \in {"mc_exec", "mf_read", "mf_exec", "rs_read", "rs_exec", "dl_exec"}

C8_NeverLost ==
    \A t \in Range(submitted) :
        \/ InSeq(t, pending) \/ InSeq(t, processing)
        \/ InSeq(t, completed) \/ InSeq(t, dead_letter)
        \/ \E p \in Procs : PutsBack(p, t)

\* C9: a crashed worker's claim is always reclaimed: an id in processing
\* whose claimant stopped for ever inside get_task, after the move to
\* processing, leaves processing again while the sweeper keeps sweeping.
\* (An id whose started_at is so late that the clock of the model cannot
\* pass its timeout is left out.)
ClaimantCrashed(t) ==
    /\ InSeq(t, processing)
    /\ \E p \in Procs : pc[p] = "crashed" /\ tid[p] = t
    /\ \/ task[t].started_at = Absent
       \/ task[t].started_at + processing_timeout < MaxTime

C9_CrashedClaimReclaimed ==
    \A t \in Ids : ClaimantCrashed(t) ~> ~ InSeq(t, processing)

\* C10: sweeping from several processes is safe: once the sweeps are over,
\* an id is in the lists exactly as often as it was submitted, as after
\* the sweep of one process.
C10_ConcurrentSweepsSafe ==
    AllIdle => \A t \in Ids : TotalCount(t) = Count(t, submitted)

\* C11: an id in dead_letter has retry_count >= max_retries, whatever
\* should_retry was passed to mark_failed.  (Stated for the ids that the
\* lists hold once.)
C11_DeadLetterExhausted ==
    \A t \in Range(dead_letter) :
        TotalCount(t) = 1 => task[t].retry_count >= max_retries

\* C12: in every interleaving, an id that is in pending or in processing has
\* retry_count <= max_retries.  (Stated for the ids submitted once.)
C12_RetryCountBounded ==
    \A t \in Range(submitted) :
        (Count(t, submitted) = 1 /\ (InSeq(t, pending) \/ InSeq(t, processing)))
            => task[t].retry_count <= max_retries

\* C13: recover_stuck_tasks passes to mark_failed exactly the ids of
\* processing whose started_at lies more than processing_timeout back and
\* touches no other task; it fails each of them once, so that the count it
\* returns is the number of tasks it failed and a stuck task with
\* retry_count 0 is back in pending with retry_count 1 after the sweep.
C13_Visit(p) ==
    (pc[p] = "rs_scan" /\ pc'[p] # "crashed" /\ <<pc[p], scan[p]>>' # <<pc[p], scan[p]>>) =>
        LET t == Head(scan[p]) IN
        IF /\ task[t] # NoTask
           /\ task[t].started_at # Absent
           /\ now - task[t].started_at > processing_timeout
        THEN pc'[p] = "rs_lrem" /\ tid'[p] = t
        ELSE pc'[p] \in {"rs_scan", "idle"} /\ lists' = lists /\ task' = task

C13_OncePerTask(p) ==
    /\ \A t \in Ids : Count(t, handed'[p]) <= 1
    /\ (pc[p] = "rs_exec" /\ pc'[p] \in {"rs_scan", "idle"} /\ task[tid[p]].retry_count = 0) =>
            /\ task'[tid[p]].retry_count = 1
            /\ pending' = Append(pending, tid[p])
    /\ (pc[p] = "rs_exec" /\ pc'[p] = "rs_scan") => recovered'[p] = Len(handed[p])

C13_SweepFailsStuckOnce ==
    [][\A p \in Procs : C13_Visit(p) /\ C13_OncePerTask(p)]_vars

\* C14: when no get_task is part-way through, every id in processing has a
\* record with status processing, a worker_id and a started_at.  (Stated for
\* the ids submitted once, with no process stopped inside a call.)
NoGetTaskPartWay ==
    \A p \in Procs : pc[p] \notin {"get_read", "get_write", "crashed"}

\* One submission has been given the id t, and none is about to.
MintedOnce(t) ==
    /\ Count(t, submitted) = 1
    /\ \A p \in Procs : pc[p] \in {"add_push", "pi_push"} => tid[p] # t

C14_ProcessingIsClaimed ==
    NoGetTaskPartWay =>
        \A t \in Range(processing) :
            MintedOnce(t) =>
                /\ task[t].status = "processing"
                /\ task[t].worker_id # "absent"
                /\ task[t].started_at # Absent

\* C15: at rest the status of a task names the list that holds its id:
\* pending, processing, completed, failed and dead for the lists pending,
\* processing, completed, failed and dead_letter.  (Stated for the ids that
\* the lists hold once.)
ListOfStatus(st) ==
    CASE st = "pending" -> pending
      [] st = "processing" -> processing
      [] st = "completed" -> completed
      [] st = "failed" -> failed
      [] st = "dead" -> dead_letter
      [] OTHER -> <<>>

C15_StatusNamesList ==
    AllIdle => \A t \in Range(submitted) :
                  TotalCount(t) = 1 => InSeq(t, ListOfStatus(task[t].status))

\* C16: every submission gets an id of its own: no id is returned to two
\* submissions, through add_task or through the POST, so no id is pushed to
\* pending twice.
C16_UniqueTaskIds ==
    \A t \in Ids : Count(t, submitted) <= 1

\* The task get_task returns: each field of the hash, parsed.  The model
\* keeps the key for the field task_id and the number for the text of
\* retry_count.
Missing == [py |-> "missing"]

GetTaskParsed(t) ==
    [task_id |-> t,
     retry_count |-> IF task[t].retry_count = Absent THEN Missing
                     ELSE ParseField(PyStrOf(PyInt(task[t].retry_count))),
     data |-> IF task[t].data = <<>> THEN Missing ELSE ParseField(task[t].data)]

\* get_task reads the hash of the id it popped.
Reads(p) == pc[p] = "get_read" /\ pc'[p] = "get_write"

\* C17: for an id in dead_letter and nothing else in pending,
\* retry_dead_letter_task(id) leaves the id alone in pending with
\* retry_count 0 and no longer in dead_letter, and the get_task that follows
\* pops that id and returns it with retry_count 0.
Requeued(t) == task[t].status = "pending" /\ task[t].last_error # "None"

C17_RetryThenClaim ==
    [][\A p \in Procs :
          /\ (Returned(p, "dl_exec") /\ pending = <<>>) =>
                /\ pending' = <<tid[p]>>
                /\ task'[tid[p]].retry_count = 0
                /\ ~ InSeq(tid[p], dead_letter')
          /\ (Popped(p) /\ Len(pending) = 1 /\ Requeued(pending[1])) =>
                tid'[p] = pending[1]
          /\ (Reads(p) /\ Requeued(tid[p])) =>
                /\ GetTaskParsed(tid[p]).task_id = tid[p]
                /\ GetTaskParsed(tid[p]).retry_count = PyInt(0)]_vars

\* C18: on an empty queue, add_task(data) and then get_task: get_task returns
\* the id add_task returned, the data that was submitted and retry_count 0.
\* The data submitted is every task_data whose encoding is the text that
\* add_task stored.
OnlyEntry(t) ==
    /\ processing = <<t>>
    /\ pending = <<>> /\ completed = <<>> /\ failed = <<>> /\ dead_letter = <<>>
    /\ submitted # <<>> /\ Last(submitted) = t
    /\ task[t].status = "pending"

C18_AddThenGetRoundTrip ==
    [][\A p \in Procs :
          (Reads(p) /\ OnlyEntry(tid[p]) /\ task[tid[p]].data # <<>>) =>
              /\ \E d \in Payloads : task[tid[p]].data = EncodeField(d)
              /\ \A d \in Payloads :
                    task[tid[p]].data = EncodeField(d) =>
                        /\ GetTaskParsed(tid[p]).task_id = tid[p]
                        /\ GetTaskParsed(tid[p]).data = d
                        /\ GetTaskParsed(tid[p]).retry_count = PyInt(0)]_vars

\* get_task has read the record of a task_data with nested filters, the only
\* entry of the queue, and is about to return it.
C18_Witness ==
    /\ pc[Caller] = "get_write"
    /\ OnlyEntry(tid[Caller])
    /\ task[tid[Caller]].data = EncodeField(FilterData)
    /\ GetTaskParsed(tid[Caller]).data = FilterData

\* C19: an id that is in processing while its record is absent is removed
\* from processing by the operation that meets it: by get_task when it has
\* popped the id, and by recover_stuck_tasks when its scan comes to the id.
\* (Stated for an id that processing holds once.)
Orphan(t) == Count(t, processing) = 1 /\ task[t] = NoTask

C19_OrphanRemoved ==
    [][\A p \in Procs :
          /\ (pc[p] = "get_read" /\ pc'[p] \notin {"get_read", "crashed"}
                /\ Orphan(tid[p])) =>
                    ~ InSeq(tid[p], processing')
          /\ (pc[p] = "rs_scan" /\ pc'[p] # "crashed"
                /\ <<pc[p], scan[p]>>' # <<pc[p], scan[p]>>
                /\ Orphan(Head(scan[p]))) =>
                    ~ InSeq(Head(scan[p]), processing')]_vars

\* C20: after any sequence of queue operations, every id in completed has a
\* record with started_at and completed_at set and completed_at >= started_at.
C20_CompletedAfterStarted ==
    \A t \in Range(completed) :
        /\ task[t].started_at # Absent
        /\ task[t].completed_at # Absent
        /\ task[t].completed_at >= task[t].started_at

\* ------------------------------------------------------- registry claims
\* The worker ids that have a record.
Registered == {w \in WorkerIds : Exists(workers[w])}

\* R1: a worker is alive iff now - last_heartbeat < heartbeat_timeout.
R1(w) == now - workers[w].last_heartbeat < heartbeat_timeout

\* C21: liveness classification follows R1 and partitions the registry: at
\* any clock value every record appears in exactly one of
\* get_active_workers() and get_dead_workers(), in the active list iff
\* now - last_heartbeat < heartbeat_timeout, and get_worker_info reports
\* is_alive with the same truth value.
C21_LivenessPartition ==
    LET active == GetActiveWorkers(Keys, now)
        dead == GetDeadWorkers(Keys, now)
    IN  /\ Len(active) + Len(dead) = Cardinality(Registered)
        /\ \A w \in Registered :
            /\ InSeq(workers[w], active) <=> R1(w)
            /\ InSeq(workers[w], dead) <=> ~ R1(w)
            /\ GetWorkerInfo(w, now).is_alive <=> R1(w)

\* Two records, one whose heartbeat is of this tick and one whose heartbeat
\* is exactly heartbeat_timeout old: the first is listed active, the second
\* dead.
C21_Witness ==
    /\ Cardinality(Registered) = 2
    /\ \E w \in Registered : now - workers[w].last_heartbeat = 0
    /\ \E w \in Registered : now - workers[w].last_heartbeat = heartbeat_timeout
    /\ Len(GetActiveWorkers(Keys, now)) = 1
    /\ Len(GetDeadWorkers(Keys, now)) = 1

\* C22: cleanup_dead_workers deletes every record that is not alive under R1
\* and returns the number of records it deleted, so get_dead_workers() at the
\* same clock value right afterwards is empty, whatever register_worker,
\* send_heartbeat and unregister_worker calls made the records.  (Stated for
\* a cleanup during which the clock did not advance, called by the one
\* caller there is, on records registered without metadata.)
C22_CleanupDeletesDead ==
    [][\A p \in Procs :
          (CleanupReturn(p) /\ current_time[p] = now) =>
              /\ GetDeadWorkers(Keys, now) = <<>>
              /\ ret'[p].value = Len(removed[p])]_vars

\* C23: the registry never deletes a live worker: no DEL of
\* cleanup_dead_workers removes a record with
\* now - last_heartbeat < heartbeat_timeout at the moment of the deletion,
\* however the worker's send_heartbeat calls interleave with the cleanup.
\* (Stated for a registered worker whose heartbeat is later than its
\* registration: send_heartbeat has refreshed the record.)
Refreshed(info) ==
    /\ "registered_at" \in DOMAIN info
    /\ info.registered_at < info.last_heartbeat

C23_NoLiveWorkerDeleted ==
    \A p \in Procs : \A i \in DOMAIN removed[p] :
        Refreshed(removed[p][i].info) => ~ removed[p][i].alive

\* C24: send_heartbeat(worker_id) returns true exactly when the hash of the
\* worker already had the field last_heartbeat, and false when it had not.
C24_HeartbeatReturnsExisted ==
    [][\A p \in Procs, w \in WorkerIds :
          SendHeartbeat(p, w) =>
              (ret'[p].value <=> "last_heartbeat" \in DOMAIN workers[w])]_vars

\* C25: after register_worker(worker_id, metadata), for any metadata, the
\* record under worker_id has worker_id equal to the argument, status active
\* and last_heartbeat equal to the registration time, and the worker is
\* reported alive.
C25_RegisterWritesRecord ==
    [][\A p \in Procs, w \in WorkerIds, md \in Metadata :
          RegisterWorker(p, w, md) =>
              /\ workers'[w].worker_id = w
              /\ workers'[w].status = "active"
              /\ workers'[w].last_heartbeat = now
              /\ IsActive(workers'[w], now)]_vars

\* ------------------------------------------------------- pipeline claims
\* apply has just returned: returned holds its pair (image, stats).  The
\* claims about apply are stated at the step that returns, where the locals
\* of the call are still there.
ApplyReturned == ppc = "returned" /\ returned.call = "apply"

\* C26: apply returns no image exactly when the successful count of its
\* stats is 0, that is when no step it attempted has a success entry, and
\* returns the working image whenever at least one step succeeded.
C26_NoImageIffNoSuccess ==
    [][ApplyReturn =>
          LET stats == returned'.value.stats IN
          /\ returned'.value.image = NoImage <=> stats.successful = 0
          /\ stats.successful = 0 <=>
                 \A i \in DOMAIN stats.filters : stats.filters[i].status = "failed"
          /\ stats.successful > 0 => returned'.value.image = result_image]_vars

\* apply went through two filters with stop_on_error off, both raised, and
\* it returned no image.
C26_Witness ==
    /\ ApplyReturned
    /\ ~ stop_on_error
    /\ Len(returned.value.stats.filters) = 2
    /\ returned.value.stats.failed = 2
    /\ returned.value.stats.successful = 0
    /\ returned.value.image = NoImage

\* C27: with stop_on_error, apply invokes no filter after the first one that
\* fails: the stats have one entry for each filter up to and including the
\* failing one, the failing entry is the last, and failed <= 1.
C27_StopOnError ==
    [][(ApplyReturn /\ stop_on_error) =>
          LET stats == returned'.value.stats IN
          /\ stats.failed <= 1
          /\ \A i \in DOMAIN invoked : invoked[i] = i - 1
          /\ Len(stats.filters) = Len(invoked)
          /\ \A i \in DOMAIN stats.filters :
              /\ stats.filters[i].index = i - 1
              /\ stats.filters[i].status = "failed" => i = Len(stats.filters)
          /\ stats.failed = 1 => stats.filters[Len(stats.filters)].status = "failed"]_vars

\* The filters whose entry in the stats says success, in the order of the
\* entries.
RECURSIVE Succeeded(_)
Succeeded(entries) ==
    IF entries = <<>> THEN <<>>
    ELSE (IF Head(entries).status = "success"
          THEN <<self_filters[Head(entries).index + 1]>> ELSE <<>>)
         \o Succeeded(Tail(entries))

\* The filters fs applied to img one after the other.
RECURSIVE ComposeFilters(_, _)
ComposeFilters(fs, img) ==
    IF fs = <<>> THEN img
    ELSE ComposeFilters(Tail(fs), FilterApply(Head(fs), img))

\* C28: with stop_on_error off, apply attempts every filter exactly once in
\* list order, a failing step leaves the working image unchanged, the image
\* returned is the in-order composition of the filters that succeeded, and
\* successful + failed = total_filters.
C28_ContinueOnError ==
    [][/\ \A filter_raises \in BOOLEAN, save_raises \in BOOLEAN :
            (ApplyStep(filter_raises, save_raises) /\ ~ stop_on_error
                /\ failed_count' > failed_count) =>
                    result_image' = result_image
       /\ (ApplyReturn /\ ~ stop_on_error) =>
            LET stats == returned'.value.stats IN
            /\ invoked = [i \in 1..Len(self_filters) |-> i - 1]
            /\ returned'.value.image # NoImage =>
                   returned'.value.image = ComposeFilters(Succeeded(stats.filters), image)
            /\ stats.successful + stats.failed = stats.total_filters]_vars

\* C29: a pipeline always holds at least one filter and only filters: the
\* constructor rejects an empty list and a list with a non-filter, and after
\* any add_filter and remove_filter calls the list is still non-empty.
C29_NonEmptyFilters ==
    /\ ppc \notin {"none", "rejected"} =>
        /\ self_filters # <<>>
        /\ \A i \in DOMAIN self_filters : IsBaseFilter(self_filters[i])
    /\ ppc = "rejected" => returned.raised \in {"ValueError", "TypeError"}

\* create_from_config(d1), ..., create_from_config(dn) applied to img in
\* that order.
RECURSIVE Compose(_, _)
Compose(cfgs, img) ==
    IF cfgs = <<>> THEN img
    ELSE Compose(Tail(cfgs), FilterApply(CreateFromConfig(Head(cfgs)).made, img))

\* C30: factory composition law: for valid descriptors d1..dn and an image on
\* which no step fails, create_pipeline([d1..dn]).apply(I) returns the image
\* that applying create_from_config(d1), ..., create_from_config(dn) to I in
\* that order gives.
C30_FactoryComposition ==
    [][(ApplyReturn /\ configs # <<>> /\ failed_count = 0) =>
          returned'.value.image = Compose(configs, image)]_vars

\* A pipeline made from two descriptors of different filters, one written
\* in capitals and one with a parameter, has applied both.
C30_Witness ==
    /\ ApplyReturned
    /\ configs = <<[type |-> "GRAY"], [type |-> "Blur", radius |-> 3]>>
    /\ returned.value.stats.failed = 0
    /\ returned.value.stats.successful = 2
    /\ returned.value.image # NoImage

\* ------------------------------------------------ factory and façade claims
\* A descriptor is valid: it has a type, the type is registered (whatever
\* its case), and the filter accepts its parameters.
ValidDescriptor(d) ==
    /\ "type" \in DOMAIN d
    /\ Lower(d.type) \in DOMAIN FILTER_REGISTRY
    /\ NewFilter(FILTER_REGISTRY[Lower(d.type)], Params(d)).raised = "no"

\* C31: create_pipeline builds a pipeline only when every descriptor is
\* valid: if a descriptor lacks a type, names a type that is not registered
\* or carries parameters the filter rejects, it raises an error that names
\* the index of the first such descriptor and returns no pipeline.
C31_CreatePipelineRejects ==
    [][\A cfgs \in ConfigArgs, soe \in BOOLEAN, si \in BOOLEAN :
          CreatePipeline(cfgs, soe, si) =>
              LET bad == {i \in DOMAIN cfgs : ~ ValidDescriptor(cfgs[i])} IN
              IF bad # {}
              THEN /\ ppc' = "rejected"
                   /\ self_filters' = <<>>
                   /\ returned'.raised = "ValueError"
                   /\ \A i \in bad : returned'.value.index <= i - 1
                   /\ returned'.value.index + 1 \in bad
              ELSE cfgs # <<>> =>
                   /\ ppc' = "ready"
                   /\ Len(self_filters') = Len(cfgs)]_vars

\* create_pipeline was given a valid descriptor followed by one without a
\* type and raised the error of index 1.
C31_Witness ==
    /\ ppc = "rejected"
    /\ returned.call = "create_pipeline"
    /\ returned.raised = "ValueError"
    /\ returned.value = [index |-> 1, type |-> "unknown"]

\* A call that builds a blur filter with the radius given, directly or
\* through the factory.
BuildsBlur(kwargs) ==
    \/ NewFilterCall("BlurFilter", kwargs)
    \/ \E filter_type \in {"blur", "Blur"} : FactoryCreate(filter_type, kwargs)

BuildsBrightness(kwargs) ==
    \/ NewFilterCall("BrightnessFilter", kwargs)
    \/ FactoryCreate("brightness", kwargs)

\* C32: a blur filter is constructed iff radius >= 0 and a brightness filter
\* iff factor > 0; every other value, brightness factor 0 included, is
\* rejected with a construction error.
C32_ParameterBounds ==
    [][\A v \in ParamValues :
          /\ BuildsBlur([radius |-> v]) =>
                IF v >= 0 THEN returned'.value = BlurFilter(v)
                ELSE returned'.raised = "ValueError"
          /\ BuildsBrightness([factor |-> v]) =>
                IF v > 0 THEN returned'.value = BrightnessFilter(v)
                ELSE returned'.raised = "ValueError"]_vars

\* ------------------------------------------------------ submission claims
\* The value of key k in a dict, PyNone when the dict has no such key.
RECURSIVE PairsGet(_, _)
PairsGet(kvs, k) ==
    IF kvs = <<>> THEN PyNone
    ELSE IF Head(kvs)[1] = k THEN Head(kvs)[2]
    ELSE PairsGet(Tail(kvs), k)

\* The element of a filters list read as a descriptor of the factory: a
\* bare name is the descriptor of that type.
AsDescriptor(e) ==
    IF e.py = "str" THEN [type |-> e.s]
    ELSE LET keys == {e.pairs[i][1] : i \in DOMAIN e.pairs} IN
         [k \in keys |-> LET v == PairsGet(e.pairs, k) IN
                         IF v.py = "str" THEN v.s ELSE v.n]

\* A filters list with an unknown type or an invalid parameter.
HasInvalidFilter(filters) ==
    \E i \in DOMAIN filters.items : ~ ValidDescriptor(AsDescriptor(filters.items[i]))

\* The task_data of add_task carries such a list.
HasInvalidData(task_data) ==
    /\ PairsGet(task_data.pairs, "filters") # PyNone
    /\ HasInvalidFilter(PairsGet(task_data.pairs, "filters"))

\* C33: a submission whose filters contain an unknown filter type or an
\* invalid parameter is rejected at submission time, through POST
\* /api/process/ and through add_task alike: no task record is written and
\* no id is pushed to pending.
C33_InvalidSubmissionRejected ==
    [][\A p \in Procs :
          (\/ \E fs \in WireFilters : HasInvalidFilter(fs) /\ ProcessImageHset(p, fs)
           \/ \E d \in WirePayloads : HasInvalidData(d) /\ AddTaskHset(p, d))
          => /\ task' = task
             /\ pending' = pending
             /\ pc'[p] = "idle"]_vars

\* What the façade is to store for the filters of a POST: a bare name as
\* the descriptor of that type, a descriptor as it is.
Normalized(filters) ==
    PyList([i \in DOMAIN filters.items |->
               IF filters.items[i].py = "str"
               THEN PyDict(<< <<"type", filters.items[i]>> >>)
               ELSE filters.items[i]])

\* Every element is a descriptor whose type is a string.
AllDescriptors(v) ==
    /\ v.py = "list"
    /\ \A i \in DOMAIN v.items :
          /\ v.items[i].py = "dict"
          /\ PairsGet(v.items[i].pairs, "type").py = "str"

\* C34: POST /api/process/ normalizes the filters field: a bare name s is
\* stored as the descriptor {type: s}, an element that already is a
\* descriptor is stored unchanged, so every element of the stored filters
\* array is a descriptor whose type is a string.
C34_FiltersNormalized ==
    [][\A p \in Procs, fs \in WireFilters :
          ProcessImageHset(p, fs) =>
              LET stored == JsonLoads(task'[tid'[p]].filters) IN
              /\ stored.ok
              /\ stored.val = Normalized(fs)
              /\ AllDescriptors(stored.val)]_vars

\* --------------------------------------------------- retry cycle claims
\* The id t was claimed within the timeout: a get_task that moved it to
\* processing has not yet written the claim, or the claim written carries
\* the present time.  (Under PromptSpec a get_task that is part-way did its
\* BRPOPLPUSH at the present time.)
FreshClaim(t) ==
    \/ \E q \in Procs : InsideGetTask(q) /\ tid[q] = t
    \/ claim[t] # "none" /\ task[t].started_at = now

\* C35: the sweep never times out a fresh claim: while a worker claimed t
\* less than the timeout ago, no recover_stuck_tasks calls mark_failed on
\* t, also when t is a retried task whose record the sweep reads between
\* the move to processing and the writes of the new claim.  (Stated for
\* the ids submitted once.)
C35_FreshClaimNotSwept ==
    [][\A p \in Procs :
          RecoverLrem(p) /\ MintedOnce(tid[p]) => ~ FreshClaim(tid[p])]_vars

\* The id t rests in a terminal list and in no other, and no get_task that
\* took it is still part-way.
TerminalRest(t) ==
    /\ InSeq(t, completed) \/ InSeq(t, dead_letter)
    /\ ~ InSeq(t, pending)
    /\ ~ InSeq(t, processing)
    /\ \A p \in Procs : InsideGetTask(p) => tid[p] # t

\* A retry_dead_letter_task for t is under way.
RetryCallUnderWay(t) == \E p \in Procs : pc[p] = "dl_exec" /\ tid[p] = t

\* C36: terminal states are absorbing: once the id of a task rests in
\* completed, or in dead_letter with no retry_dead_letter_task call for it,
\* no step of any worker or sweeper puts the id in pending or processing
\* again or changes its status.  (Stated for the ids submitted once.)
C36_TerminalAbsorbing ==
    [][\A t \in Ids :
          (/\ MintedOnce(t) /\ MintedOnce(t)'
           /\ TerminalRest(t)
           /\ ~ RetryCallUnderWay(t)
           /\ ~ \E p \in Procs : RetryDeadLetterLrem(p, t))
          => /\ ~ InSeq(t, pending')
             /\ ~ InSeq(t, processing')
             /\ task'[t].status = task[t].status]_vars

\* C37: no retry increment is lost: each mark_failed on a task adds one to
\* the retry_count the record holds when its write lands, whichever workers
\* or sweepers issue the calls and however they interleave, so that n
\* calls since the count was last 0 leave it at n.  (Stated for the ids
\* submitted once, with no retry_dead_letter_task for the id under way.)
C37_NoLostIncrement ==
    [][\A p \in Procs :
          (/\ MarkFailedExec(p)
           /\ MintedOnce(tid[p])
           /\ task[tid[p]].retry_count >= rc[p] - 1
           /\ ~ RetryCallUnderWay(tid[p]))
          => task'[tid[p]].retry_count = task[tid[p]].retry_count + 1]_vars

\* The id t rests in completed or in dead_letter: it is in one list, once,
\* and no call about it is under way.
Rests(t) ==
    /\ TotalCount(t) = 1
    /\ InSeq(t, completed) \/ InSeq(t, dead_letter)
    /\ \A p \in Procs : tid[p] # t

\* The claims of t so far, when every claim is followed by one mark from
\* the claimant: one for each failure recorded, and one for the claim that
\* is held or was completed.
ClaimsOf(t) ==
    task[t].retry_count
        + (IF InSeq(t, processing) \/ InSeq(t, completed) THEN 1 ELSE 0)

C39_OnlyRegisterAdds ==
    [][\A w \in Registered' \ Registered :
          \E p \in Procs, metadata \in Metadata : RegisterWorker(p, w, metadata)]_vars

\* -------------------------------------------------- retry_dead_letter_task
\* The list after is the list before less one occurrence of t.
OneRemoved(t, before, after) ==
    /\ Len(after) = Len(before) - 1
    /\ Count(t, after) = Count(t, before) - 1
    /\ \A u \in Ids \ {t} : Count(u, after) = Count(u, before)

\* C40: with calls one after the other, retry_dead_letter_task(id) for an
\* id that is not in dead_letter is a no-op: no list changes and the
\* record keeps its retry_count and status; for an id that occurs in
\* dead_letter it removes exactly one occurrence and appends the id to
\* pending exactly once (with retry_count 0 and status pending).
C40_RetryDeadLetter ==
    [][\A p \in Procs :
          /\ \A t \in Ids :
                RetryDeadLetterLrem(p, t) =>
                    IF Count(t, dead_letter) = 0
                    THEN /\ lists' = lists
                         /\ task' = task
                         /\ pc'[p] = "idle"
                    ELSE /\ OneRemoved(t, dead_letter, dead_letter')
                         /\ <<pending, processing, completed, failed>>'
                                = <<pending, processing, completed, failed>>
                         /\ pc'[p] = "dl_exec" /\ tid'[p] = t
          /\ Returned(p, "dl_exec") =>
                /\ pending' = Append(pending, tid[p])
                /\ <<processing, completed, failed, dead_letter>>'
                       = <<processing, completed, failed, dead_letter>>
                /\ task'[tid[p]].retry_count = 0
                /\ task'[tid[p]].status = "pending"]_vars

\* A retry_dead_letter_task has put back in pending an id that was in
\* dead_letter twice: one occurrence is left there.
C40_Witness ==
    \E t \in Ids :
        /\ AllIdle
        /\ pending = <<t>>
        /\ Count(t, dead_letter) = 1
        /\ task[t].status = "pending" /\ task[t].retry_count = 0
        /\ task[t].last_error # "None"

TypeOK ==
    /\ now \in 0..MaxTime
    /\ \A t \in Ids : task[t].retry_count \in -1..MaxCount
    /\ Occ <= MaxOcc

====
